---- MODULE Spec2Model ----
(***************************************************************************)
(* Interview orchestration core of app.py: the Flask session of one        *)
(* browser, the handlers that read and write it, the interview database    *)
(* and the physical analyzer.                                              *)
(*                                                                         *)
(* Numbers: every score is an integer number of hundredths (6.27 is 627).  *)
(*                                                                         *)
(* Session storage: `session` is Flask's signed-cookie session.  A handler *)
(* works on the copy decoded from the request's cookie; the copy is        *)
(* written back with the response only when a top-level key was set,       *)
(* deleted or the session was cleared during the request (the `modified`   *)
(* flag); mutating a list or dict stored under a key does not set it.      *)
(***************************************************************************)
EXTENDS Integers, Sequences, FiniteSets, TLC

VARIABLES
    session,            \* the browser's session cookie (decoded)
    interviews,         \* the interviews table: the row of the interview in progress
    physical_analyzer,  \* PhysicalAnalyzer.current_analysis (process global)
    predictions,        \* data/predictions: the file of the interview in progress
    submits,            \* history: submit_answer calls of this interview that went through
    requests,           \* history: the requests SpecConc's browser has sent
    base_questions      \* question_generator.base_questions[job_role] (process global)

vars == <<session, interviews, physical_analyzer, predictions, submits,
          requests, base_questions>>

-----------------------------------------------------------------------------
(* Bounds of the model.                                                    *)

\* Config.MIN_QUESTIONS / DEFAULT_QUESTIONS / MAX_QUESTIONS are 10 / 12 / 15
\* in config.py; the model keeps their order and runs a shorter interview.
MIN_QUESTIONS == 2
DEFAULT_QUESTIONS == 2
MAX_QUESTIONS == 3
\* largest list ai_interviewer.get_questions returns for a role
MaxBank == 3
\* frames, and audio segments, in one analyze_physical request
MaxBatch == 1
\* requests the browser of SpecConc sends during one interview
MaxRequests == 3

-----------------------------------------------------------------------------
(* Program constants.                                                      *)

CONFIDENCE_WEIGHT == 40      \* Config.CONFIDENCE_WEIGHT = 0.4, in percent
VOICE_WEIGHT == 35           \* Config.VOICE_WEIGHT = 0.35
BODY_LANGUAGE_WEIGHT == 25   \* Config.BODY_LANGUAGE_WEIGHT = 0.25
ANSWER_SHARE == 7            \* score * 0.7, in tenths
PHYSICAL_SHARE == 3          \* physical_score * 0.3
NEUTRAL == 500               \* the 5.0 defaults of the analyzer
TEST_QUESTION_COUNT == 3     \* the three literal questions of test_questions
ENABLE_PHYSICAL_ANALYSIS == TRUE

-----------------------------------------------------------------------------
(* Arithmetic.                                                             *)

\* round(n / d) to the nearest integer, ties to even, as Python's round().
RoundDiv(n, d) ==
    LET q == n \div d
        r == n % d
    IN  IF 2 * r < d THEN q
        ELSE IF 2 * r > d THEN q + 1
        ELSE IF q % 2 = 0 THEN q ELSE q + 1

RECURSIVE Sum(_)
Sum(seq) == IF seq = <<>> THEN 0 ELSE Head(seq) + Sum(Tail(seq))

\* round(sum(xs) / len(xs), 2)
Mean2(xs) == RoundDiv(Sum(xs), Len(xs))

\* an overall score that is the plain mean of the three averages
OverallPhysical_EqualWeights(confidence, voice_quality, body_language) ==
    RoundDiv(confidence + voice_quality + body_language, 3)

\* round(confidence*0.4 + voice_quality*0.35 + body_language*0.25, 2)
OverallPhysical(confidence, voice_quality, body_language) ==
    RoundDiv(confidence * CONFIDENCE_WEIGHT + voice_quality * VOICE_WEIGHT
             + body_language * BODY_LANGUAGE_WEIGHT, 100)

\* a merge that adds the physical share on top of the whole answer score
CombinedScore_Bonus(score, physical_score) ==
    10 * RoundDiv(score * 10 + physical_score * PHYSICAL_SHARE, 100)

\* round(score*0.7 + physical_score*0.3, 1)
CombinedScore(score, physical_score) ==
    10 * RoundDiv(score * ANSWER_SHARE + physical_score * PHYSICAL_SHARE, 100)

\* an average cut to a whole number of hundredths instead of rounded to a tenth
AverageScore_Truncated(total, count) == total \div count

\* round(total / count, 1)
AverageScore(total, count) == 10 * RoundDiv(total, count * 10)

Max(a, b) == IF a >= b THEN a ELSE b
Min(a, b) == IF a <= b THEN a ELSE b

\* max(Config.MIN_QUESTIONS, min(Config.MAX_QUESTIONS, Config.DEFAULT_QUESTIONS))
TargetTotal == Max(MIN_QUESTIONS, Min(MAX_QUESTIONS, DEFAULT_QUESTIONS))

-----------------------------------------------------------------------------
(* The session cookie.  `keys` is the set of keys present; a field whose   *)
(* key is absent holds its neutral value.                                  *)

\* Interview ids.  A row id (cursor.lastrowid) and a token (secrets.token_hex)
\* are fresh for every interview, so an earlier interview's row and prediction
\* file are never touched again: the model keeps only those of the interview in
\* progress and names the id by its kind.
NoId == "none"
RowId == "row"
TokenId == "token"
TestId == "test"           \* the literal 'test'

EmptySession ==
    [keys |-> {}, interview_id |-> NoId, current_question |-> 0, score |-> 0,
     responses |-> <<>>, questions |-> <<>>, total_questions_target |-> 0,
     physical_analysis |-> {}, resume_analysis |-> "none"]

Has(s, k) == k \in s.keys

\* session[k] = v
SetKey(s, k, v) == [s EXCEPT ![k] = v, !.keys = @ \cup {k}]

\* session[k] = <a value the model does not track> (candidate_name, job_role, ...)
SetFlag(s, k) == [s EXCEPT !.keys = @ \cup {k}]

\* 'interview_id' in session
Active(s) == Has(s, "interview_id")

\* session.get('total_questions_target', len(questions))
TargetOf(s) ==
    IF Has(s, "total_questions_target") THEN s.total_questions_target
    ELSE Len(s.questions)

\* a question dict; `src` is where its text came from
Question(src) == [src |-> src]
DefaultQuestion == Question("default")   \* "Tell me about yourself ..."
NoQuestion == Question("none")           \* None where a question dict is expected

\* n copies of q
Repeat(q, n) == [i \in 1..n |-> q]

\* What a handler hands back to Flask: the working copy of the session, whether
\* it was marked modified, whether the handler raised, and the response.
Result(s, mod, exc, status, body) ==
    [s |-> s, mod |-> mod, exc |-> exc, status |-> status, body |-> body]

NoBody == [completed |-> FALSE]

\* SecureCookieSessionInterface.save_session: the cookie is rewritten only for a
\* modified session.  An unhandled exception still produces a response (and a
\* cookie) unless the server propagates exceptions, as app.run(debug=True) does.
save_session(old, res, propagate) ==
    IF res.mod /\ ~(res.exc /\ propagate) THEN res.s ELSE old

-----------------------------------------------------------------------------
(* Collaborators whose code is outside the repository's sources.           *)

\* question_generator.generate_questions_raw(job_role, resume_analysis, n):
\* at most n questions, possibly none
generate_questions_raw(n) == {Repeat(Question("api"), k) : k \in 0..n}

\* question_generator.generate_next_question(...): one more question; which
\* provider wrote it leaves no trace in the session
generate_next_question == {Question("api")}

\* question_generator.generate_next_question(...) when every provider failed:
\* the resolver draws the question from the static bank
FallbackQuestion == Question("bank")

\* the questions two calls of generate_next_question may come up with
NextQuestions == generate_next_question \cup {FallbackQuestion}

\* ai_interviewer.get_questions(job_role): the role's bank list
get_questions == {Repeat(Question("bank"), k) : k \in 0..MaxBank}

\* ai_interviewer.analyze_answer(...)[0]: the base score of an answer
BaseScores == {300, 800}

-----------------------------------------------------------------------------
(* Starting an interview.                                                  *)

\* session['current_question'] = 0; session['score'] = 0; session['responses'] = []
InitProgress(s) ==
    SetKey(SetKey(SetKey(s, "current_question", 0), "score", 0), "responses", <<>>)

\* app.py start_interview_with_name, with a candidate name given
start_interview_with_name(s, batch) ==
    LET s1 == SetFlag(SetFlag(EmptySession, "candidate_name"), "job_role")
        s2 == InitProgress(SetKey(s1, "interview_id", RowId))
        s3 == SetKey(s2, "total_questions_target", TargetTotal)
        questions == IF batch = <<>> THEN <<DefaultQuestion>> ELSE batch
    IN  Result(SetKey(s3, "questions", questions), TRUE, FALSE, 200, NoBody)

\* app.py debug_start_interview_direct
debug_start_interview_direct(s, bank) ==
    LET s1 == InitProgress(SetKey(EmptySession, "interview_id", TokenId))
        s2 == SetFlag(SetKey(s1, "questions", bank), "job_role")
    IN  Result(s2, TRUE, FALSE, 302, NoBody)

\* app.py test_questions
test_questions(s) ==
    LET s1 == SetKey(EmptySession, "interview_id", TestId)
        s2 == SetKey(s1, "current_question", 0)
        s3 == SetKey(s2, "questions", Repeat(Question("test"), TEST_QUESTION_COUNT))
    IN  Result(SetKey(s3, "responses", <<>>), TRUE, FALSE, 302, NoBody)

\* a start that takes the head of the batch and has nothing to fall back on
FirstQuestion_NoFallback(first_batch) ==
    IF first_batch = <<>> THEN NoQuestion ELSE first_batch[1]

\* first_question = first_batch[0] if first_batch else {"question": "Tell me ..."}
FirstQuestion(first_batch) ==
    IF first_batch = <<>> THEN DefaultQuestion ELSE first_batch[1]

\* app.py start_video_interview
start_video_interview(s, first_batch) ==
    LET s1 == SetFlag(SetKey(EmptySession, "interview_id", TokenId),
                      "candidate_name")
        s2 == SetFlag(InitProgress(s1), "job_role")
        s3 == SetKey(s2, "total_questions_target", TargetTotal)
        first_question == FirstQuestion(first_batch)
    IN  Result(SetKey(s3, "questions", <<first_question>>), TRUE, FALSE, 302, NoBody)

-----------------------------------------------------------------------------
(* Reading the current question.                                           *)

\* the "ensure at least the first question exists" block shared by
\* video_interview and interview_room
EnsureFirstQuestion(s, first_batch) ==
    IF ~Has(s, "questions") \/ s.questions = <<>>
    THEN SetKey(SetKey(s, "questions",
                       IF first_batch = <<>> THEN <<DefaultQuestion>> ELSE first_batch),
                "current_question", 0)
    ELSE s

\* app.py video_interview
video_interview(s, first_batch) ==
    IF ~Active(s) THEN Result(s, FALSE, FALSE, 302, NoBody)
    ELSE IF ~Has(s, "questions") \/ s.questions = <<>>
    THEN Result(EnsureFirstQuestion(
                    SetKey(s, "total_questions_target", TargetTotal), first_batch),
                TRUE, FALSE, 200, NoBody)
    ELSE Result(s, FALSE, FALSE, 200, NoBody)

\* a handler that appends the generated question to a list it never stores
AppendQuestion_NotStored(s, next_q) == s

\* questions.append(next_q); session['questions'] = questions
AppendQuestion(s, next_q) == SetKey(s, "questions", Append(s.questions, next_q))

\* app.py interview_room
interview_room(s, first_batch, next_q) ==
    IF ~Active(s) THEN Result(s, FALSE, FALSE, 302, NoBody)
    ELSE
    LET s1 == IF Has(s, "total_questions_target") THEN s
              ELSE SetKey(s, "total_questions_target", TargetTotal)
        s2 == EnsureFirstQuestion(s1, first_batch)
        current_q == s2.current_question
        mod == s2 # s
    IN  IF current_q >= TargetOf(s2)
        THEN Result(s2, mod, FALSE, 302, [completed |-> TRUE])
        ELSE IF current_q >= Len(s2.questions)
        THEN Result(AppendQuestion(s2, next_q), TRUE, FALSE, 200,
                    [completed |-> FALSE, question |-> next_q,
                     question_num |-> current_q + 1])
        ELSE Result(s2, mod, FALSE, 200,
                    [completed |-> FALSE, question |-> s2.questions[current_q + 1],
                     question_num |-> current_q + 1])

\* app.py get_next_question
get_next_question(s, next_q) ==
    IF ~Active(s) THEN Result(s, FALSE, FALSE, 400, NoBody)
    ELSE IF ~Has(s, "current_question") \/ ~Has(s, "questions")
    THEN \* session['current_question'] / session['questions'] raises KeyError
         Result(s, FALSE, TRUE, 500, NoBody)
    ELSE
    LET current_q == s.current_question
    IN  IF current_q >= TargetOf(s)
        THEN Result(s, FALSE, FALSE, 200, [completed |-> TRUE])
        ELSE
        LET generates == current_q >= Len(s.questions)
            s1 == IF generates THEN AppendQuestion(s, next_q) ELSE s
            question == s1.questions[current_q + 1]
        IN  IF question = NoQuestion
            THEN \* question['question'] raises TypeError
                 Result(s1, generates, TRUE, 500, NoBody)
            ELSE Result(s1, generates, FALSE, 200,
                        [completed |-> FALSE, question |-> question,
                         question_num |-> current_q + 1])

-----------------------------------------------------------------------------
(* Physical analysis.                                                      *)

\* What physical_analyzer.analyze_video_frame / analyze_audio made of one
\* frame or segment of a request: not sent, sent and analysed, or sent and None.
NoFrame == [sent |-> FALSE, ok |-> FALSE, confidence |-> 0, posture_score |-> 0]
FailedFrame == [sent |-> TRUE, ok |-> FALSE, confidence |-> 0, posture_score |-> 0]
GoodFrame == [sent |-> TRUE, ok |-> TRUE, confidence |-> 800, posture_score |-> 500]
FrameInputs == {NoFrame, FailedFrame, GoodFrame}

NoAudio == [sent |-> FALSE, ok |-> FALSE, voice_score |-> 0]
GoodAudio == [sent |-> TRUE, ok |-> TRUE, voice_score |-> 700]
AudioInputs == {NoAudio, GoodAudio}

\* An analysis dict.  has_details: 'details' holds the score lists and the
\* counters (it is the empty dict in the analyzer's initial value).  tags is
\* history: the question each ingested request's data was captured for.
Analysis(confidence, voice_quality, body_language, cs, vs, ps, fc, ac) ==
    [confidence |-> confidence, voice_quality |-> voice_quality,
     body_language |-> body_language,
     overall_physical_score |-> 0,
     confidence_scores |-> cs, voice_scores |-> vs, posture_scores |-> ps,
     frame_count |-> fc, audio_segment_count |-> ac,
     has_details |-> TRUE, tags |-> {}]

\* PhysicalAnalyzer.__init__: self.current_analysis
InitialAnalysis ==
    [Analysis(0, 0, 0, <<>>, <<>>, <<>>, 0, 0) EXCEPT !.has_details = FALSE]

\* the sample lists of an analysis dict hold no sample
NoSamples(data) ==
    /\ data.confidence_scores = <<>>
    /\ data.voice_scores = <<>>
    /\ data.posture_scores = <<>>

\* the dict update_physical_analysis creates for a question
NewBucket == Analysis(0, 0, 0, <<>>, <<>>, <<>>, 0, 0)

\* 'question_<q>' in session['physical_analysis']
HasBucket(s, q) == \E b \in s.physical_analysis : b.q = q

\* session['physical_analysis']['question_<q>']
BucketOf(s, q) == (CHOOSE b \in s.physical_analysis : b.q = q).data

\* session['physical_analysis']['question_<q>'] = data
PutBucket(s, q, data) ==
    [s EXCEPT !.physical_analysis =
        {b \in @ : b.q # q} \cup {[q |-> q, data |-> data]}]

\* a submit_answer that leaves the answered question's bucket in place
PopBucket_Kept(s, q) == s

\* session['physical_analysis'].pop('question_<q>', None)
PopBucket(s, q) == [s EXCEPT !.physical_analysis = {b \in @ : b.q # q}]

\* if 'physical_analysis' not in session: session['physical_analysis'] = {}
EnsurePhysicalKey(s) ==
    IF Has(s, "physical_analysis") THEN s ELSE SetKey(s, "physical_analysis", {})

\* the frame branch of update_physical_analysis
AddFrame(d, frame) ==
    IF frame.sent /\ frame.ok
    THEN LET cs == Append(d.confidence_scores, frame.confidence)
             ps == Append(d.posture_scores, frame.posture_score)
         IN  [d EXCEPT !.confidence_scores = cs, !.posture_scores = ps,
                       !.frame_count = @ + 1,
                       !.confidence = Mean2(cs), !.body_language = Mean2(ps)]
    ELSE d

\* the audio branch of update_physical_analysis
AddAudio(d, audio) ==
    IF audio.sent /\ audio.ok
    THEN LET vs == Append(d.voice_scores, audio.voice_score)
         IN  [d EXCEPT !.voice_scores = vs, !.audio_segment_count = @ + 1,
                       !.voice_quality = Mean2(vs)]
    ELSE d

\* "Recalculate overall physical score"
Recalculate(d) ==
    [d EXCEPT !.overall_physical_score =
        OverallPhysical(d.confidence, d.voice_quality, d.body_language)]

\* app.py update_physical_analysis; tag is the question the data was captured for
update_physical_analysis(s, frame, audio, tag) ==
    IF ~Active(s) THEN Result(s, FALSE, FALSE, 400, NoBody)
    ELSE IF ~frame.sent /\ ~audio.sent
    THEN Result(s, FALSE, FALSE, 200, [success |-> FALSE])
    ELSE
    LET current_q == s.current_question
        s1 == EnsurePhysicalKey(s)
        mod == ~Has(s, "physical_analysis")
        s2 == IF HasBucket(s1, current_q) THEN s1
              ELSE PutBucket(s1, current_q, NewBucket)
        current_data == BucketOf(s2, current_q)
    IN  IF ~current_data.has_details /\ (frame.ok \/ audio.ok)
        THEN \* details['confidence_scores'] raises KeyError, caught by the handler
             Result(s2, mod, FALSE, 500, [success |-> FALSE])
        ELSE LET d == Recalculate(AddAudio(AddFrame(current_data, frame), audio))
                 data == [d EXCEPT !.tags = IF frame.ok \/ audio.ok
                                           THEN @ \cup {tag} ELSE @]
             IN  Result(PutBucket(s2, current_q, data), mod, FALSE, 200,
                        [success |-> TRUE, current_analysis |-> data])

\* the scores of the frames (segments) of a batch that were analysed
RECURSIVE Collect(_, _)
Collect(items, field) ==
    IF items = <<>> THEN <<>>
    ELSE IF Head(items).ok THEN <<Head(items)[field]>> \o Collect(Tail(items), field)
    ELSE Collect(Tail(items), field)

\* np.mean(xs) if xs else 5.0, rounded to 2 places
MeanOrNeutral(xs) == IF xs = <<>> THEN NEUTRAL ELSE Mean2(xs)

\* PhysicalAnalyzer.analyze_realtime_data without a failure
analyze_realtime_data(video_frames, audio_segments) ==
    LET cs == Collect(video_frames, "confidence")
        ps == Collect(video_frames, "posture_score")
        vs == Collect(audio_segments, "voice_score")
    IN  Recalculate(Analysis(MeanOrNeutral(cs), MeanOrNeutral(vs), MeanOrNeutral(ps),
                             cs, vs, ps, Len(video_frames), Len(audio_segments)))

\* app.py analyze_physical; fails: analyze_realtime_data hit its except branch
\* and handed back the analysis it had retained
analyze_physical(s, analyzer, video_frames, audio_segments, fails, tag) ==
    IF ~Active(s) THEN Result(s, FALSE, FALSE, 400, NoBody) @@ [analyzer |-> analyzer]
    ELSE IF video_frames = <<>> /\ audio_segments = <<>>
    THEN Result(s, FALSE, FALSE, 400, NoBody) @@ [analyzer |-> analyzer]
    ELSE
    LET current_q == s.current_question
        physical_analysis == IF fails THEN analyzer
                             ELSE analyze_realtime_data(video_frames, audio_segments)
        s1 == EnsurePhysicalKey(s)
        data == IF fails \/ NoSamples(physical_analysis) THEN physical_analysis
                ELSE [physical_analysis EXCEPT !.tags = {tag}]
    IN  Result(PutBucket(s1, current_q, data), ~Has(s, "physical_analysis"),
               FALSE, 200, [success |-> TRUE, analysis |-> physical_analysis])
        @@ [analyzer |-> physical_analysis]

-----------------------------------------------------------------------------
(* The interviews table (models/interview_db.py).                          *)

\* InterviewDatabase.create_interview
create_interview(db, id) ==
    db \cup {[id |-> id, status |-> "in_progress", overall_score |-> 0,
              completed_questions |-> 0, total_questions |-> 0, responses |-> 0]}

\* InterviewDatabase.save_responses; the row keeps the number of responses saved
save_responses(db, id, responses) ==
    {IF r.id = id THEN [r EXCEPT !.responses = Len(responses)] ELSE r : r \in db}

\* InterviewDatabase.update_interview_score
update_interview_score(db, id, score, completed_questions, total_questions) ==
    {IF r.id = id
     THEN [r EXCEPT !.overall_score = score,
                    !.completed_questions = completed_questions,
                    !.total_questions = total_questions, !.status = "completed"]
     ELSE r : r \in db}

\* where a database call of submit_answer may raise sqlite3.Error
DbFailures == {"none", "save_responses", "update_interview_score"}

-----------------------------------------------------------------------------
(* Submitting an answer.                                                   *)

\* tiers whose lower bounds are exclusive
Tier_ExclusiveBounds(score) ==
    IF score > 800 THEN "excellent"
    ELSE IF score > 600 THEN "good"
    ELSE IF score > 400 THEN "okay"
    ELSE "needs_work"

\* "Add AI personality to feedback": the tier the score falls in
Tier(score) ==
    IF score >= 800 THEN "excellent"
    ELSE IF score >= 600 THEN "good"
    ELSE IF score >= 400 THEN "okay"
    ELSE "needs_work"

\* "Integrate physical analysis into score if available"
MergedScore(s, current_q, base) ==
    IF HasBucket(s, current_q) /\ ENABLE_PHYSICAL_ANALYSIS
    THEN CombinedScore(base, BucketOf(s, current_q).overall_physical_score)
    ELSE base

\* a response numbered from one
ResponseData_NextIndex(s, current_q, base) ==
    LET score == MergedScore(s, current_q, base)
    IN  [question_index |-> current_q + 1, question |-> s.questions[current_q + 1],
         score |-> score, feedback |-> Tier(score),
         physical_analysis |-> {b.data : b \in {x \in s.physical_analysis : x.q = current_q}},
         base |-> base]

\* response_data; base is history: the score analyze_answer returned
ResponseData(s, current_q, base) ==
    LET score == MergedScore(s, current_q, base)
    IN  [question_index |-> current_q, question |-> s.questions[current_q + 1],
         score |-> score, feedback |-> Tier(score),
         physical_analysis |-> {b.data : b \in {x \in s.physical_analysis : x.q = current_q}},
         base |-> base]

\* a submit_answer that forgets to store the response
AppendResponse_Dropped(s, response_data) == s

\* session['responses'].append(response_data)
AppendResponse(s, response_data) ==
    [s EXCEPT !.responses = Append(@, response_data)]

\* a submit_answer that skips a question
Advance_ByTwo(s, score) ==
    SetKey(SetKey(s, "score", s.score + score),
           "current_question", s.current_question + 2)

\* session['score'] += score; session['current_question'] += 1
Advance(s, score) ==
    SetKey(SetKey(s, "score", s.score + score),
           "current_question", s.current_question + 1)

\* a submit_answer that leaves the next question to the next page load
PreGenerate_Skipped(s, next_q) == s

\* "Pre-generate the next question (so the next page load has it)"
PreGenerate(s, next_q) ==
    IF s.current_question >= Len(s.questions)
    THEN [s EXCEPT !.questions = Append(@, next_q)]
    ELSE s

\* a body that reports the answer's score before the merge
SubmitBody_BaseScore(s, response_data, completed) ==
    [next_question |-> s.current_question, score |-> response_data.base,
     feedback |-> response_data.feedback, completed |-> completed, accepted |-> TRUE]

\* the JSON body of a submit_answer that went through
SubmitBody(s, response_data, completed) ==
    [next_question |-> s.current_question, score |-> response_data.score,
     feedback |-> response_data.feedback, completed |-> completed, accepted |-> TRUE]

\* app.py submit_answer
submit_answer(s, db, base, db_fail, next_q) ==
    IF ~Active(s) THEN Result(s, FALSE, FALSE, 400, NoBody) @@ [db |-> db]
    ELSE IF s.current_question >= Len(s.questions)
    THEN Result(s, FALSE, FALSE, 200,
                [next_question |-> s.current_question, score |-> 0,
                 feedback |-> "Interview completed!", completed |-> TRUE,
                 accepted |-> FALSE]) @@ [db |-> db]
    ELSE IF ~Has(s, "job_role")
    THEN Result(s, FALSE, TRUE, 500, NoBody) @@ [db |-> db]
    ELSE
    LET current_q == s.current_question
        response_data == ResponseData(s, current_q, base)
        s1 == AppendResponse(s, response_data)
        db1 == save_responses(db, s.interview_id, s1.responses)
        s2 == PopBucket(s1, current_q)
        s3 == Advance(s2, response_data.score)
        target_total == TargetOf(s3)
        completed == s3.current_question >= target_total
        avg_score == AverageScore(s3.score, Len(s3.responses))
    IN  IF db_fail = "save_responses"
        THEN Result(s1, FALSE, TRUE, 500, NoBody) @@ [db |-> db]
        ELSE IF ~Has(s, "score")
        THEN Result(s2, FALSE, TRUE, 500, NoBody) @@ [db |-> db1]
        ELSE IF completed /\ db_fail = "update_interview_score"
        THEN Result(s3, TRUE, TRUE, 500, NoBody) @@ [db |-> db1]
        ELSE IF completed
        THEN Result(s3, TRUE, FALSE, 200, SubmitBody(s3, response_data, TRUE))
             @@ [db |-> update_interview_score(db1, s.interview_id, avg_score,
                                               Len(s3.responses), target_total)]
        ELSE Result(PreGenerate(s3, next_q), TRUE, FALSE, 200,
                    SubmitBody(s3, response_data, FALSE)) @@ [db |-> db1]

-----------------------------------------------------------------------------
(* The final report.                                                       *)

\* the prediction file of an interview: open(prediction_file, 'w') replaces it
WritePrediction(files, s) ==
    {f \in files : f.interview_id # s.interview_id}
    \cup {[interview_id |-> s.interview_id, total_questions |-> Len(s.responses)]}

\* a results whose failed write ends the request with an error
results_WriteFatal(s, files, write_fails) ==
    IF ~Active(s) THEN Result(s, FALSE, FALSE, 302, NoBody) @@ [files |-> files]
    ELSE IF ~Has(s, "score") \/ write_fails
    THEN Result(s, FALSE, TRUE, 500, NoBody) @@ [files |-> files]
    ELSE Result(s, FALSE, FALSE, 200,
                [total_score |-> s.score, max_possible |-> Len(s.responses) * 1000])
         @@ [files |-> WritePrediction(files, s)]

\* app.py results; write_fails: the file could not be written (caught, logged)
results(s, files, write_fails) ==
    IF ~Active(s) THEN Result(s, FALSE, FALSE, 302, NoBody) @@ [files |-> files]
    ELSE IF ~Has(s, "score")
    THEN Result(s, FALSE, TRUE, 500, NoBody) @@ [files |-> files]
    ELSE Result(s, FALSE, FALSE, 200,
                [total_score |-> s.score, max_possible |-> Len(s.responses) * 1000])
         @@ [files |-> IF write_fails THEN files ELSE WritePrediction(files, s)]

-----------------------------------------------------------------------------
(* The state machine: one browser, one request at a time.                  *)

Init ==
    /\ session = EmptySession
    /\ interviews = {}
    /\ physical_analyzer = InitialAnalysis
    /\ predictions = {}
    /\ submits = 0
    /\ requests = {}
    /\ base_questions = Repeat(FallbackQuestion, MaxBank)

\* sequences of at most MaxBatch items of a request's list
Batches(items) == UNION {[1..k -> items] : k \in 0..MaxBatch}

StartInterviewWithName ==
    /\ \E batch \in generate_questions_raw(TargetTotal) :
         session' = save_session(session,
                        start_interview_with_name(session, batch), FALSE)
    /\ interviews' = create_interview({}, RowId)
    /\ predictions' = {}
    /\ submits' = 0
    /\ UNCHANGED <<base_questions, physical_analyzer, requests>>

\* the request without a candidate name: 400, nothing happens
StartInterviewWithoutName ==
    /\ UNCHANGED vars

DebugStartInterviewDirect ==
    /\ \E bank \in get_questions :
         session' = save_session(session,
                        debug_start_interview_direct(session, bank), FALSE)
    /\ interviews' = {}
    /\ predictions' = {}
    /\ submits' = 0
    /\ UNCHANGED <<base_questions, physical_analyzer, requests>>

TestQuestions ==
    /\ session' = save_session(session, test_questions(session), FALSE)
    /\ interviews' = {}
    /\ predictions' = {}
    /\ submits' = 0
    /\ UNCHANGED <<base_questions, physical_analyzer, requests>>

StartVideoInterview ==
    /\ \A req \in requests : req.answered
    /\ \E first_batch \in generate_questions_raw(1) :
         session' = save_session(session,
                        start_video_interview(session, first_batch), FALSE)
    /\ interviews' = {}
    /\ predictions' = {}
    /\ submits' = 0
    /\ requests' = {}
    /\ UNCHANGED <<base_questions, physical_analyzer>>

VideoInterview ==
    /\ \E first_batch \in generate_questions_raw(1) :
         session' = save_session(session, video_interview(session, first_batch), FALSE)
    /\ UNCHANGED <<base_questions, interviews, physical_analyzer, predictions, submits,
                   requests>>

InterviewRoom ==
    /\ \E first_batch \in generate_questions_raw(1), next_q \in generate_next_question :
         session' = save_session(session,
                        interview_room(session, first_batch, next_q), FALSE)
    /\ UNCHANGED <<base_questions, interviews, physical_analyzer, predictions, submits,
                   requests>>

GetNextQuestion ==
    /\ \E next_q \in generate_next_question :
         session' = save_session(session, get_next_question(session, next_q), FALSE)
    /\ UNCHANGED <<base_questions, interviews, physical_analyzer, predictions, submits,
                   requests>>

\* the handler ran to its return statement, or raised after the session was
\* marked modified and Flask answered 500: its session reached the browser
WentThrough(res, propagate) == res.mod /\ ~(res.exc /\ propagate)

\* whether the server propagates exceptions shows only when a handler raises
Propagation(res) == IF res.exc THEN BOOLEAN ELSE {FALSE}

SubmitAnswer ==
    /\ \E base \in BaseScores, db_fail \in DbFailures,
          next_q \in generate_next_question :
         LET r == submit_answer(session, interviews, base, db_fail, next_q)
         IN  \E propagate \in Propagation(r) :
                /\ session' = save_session(session, r, propagate)
                /\ interviews' = r.db
                /\ submits' = IF WentThrough(r, propagate) THEN submits + 1
                              ELSE submits
    /\ UNCHANGED <<base_questions, physical_analyzer, predictions, requests>>

\* the questions a sample that is taken in now may have been captured for
SampleTags(s, taken) ==
    IF taken THEN {t \in 0..s.current_question : t + 1 >= s.current_question}
    ELSE {s.current_question}

UpdatePhysicalAnalysis ==
    /\ \E frame \in FrameInputs, audio \in AudioInputs :
         \E tag \in SampleTags(session, frame.ok \/ audio.ok) :
            session' = save_session(session,
                           update_physical_analysis(session, frame, audio, tag), FALSE)
    /\ UNCHANGED <<base_questions, interviews, physical_analyzer, predictions, submits,
                   requests>>

AnalyzePhysical ==
    /\ \E video_frames \in Batches({GoodFrame}),
          audio_segments \in {<<>>}, fails \in BOOLEAN :
         \E tag \in SampleTags(session, ~fails /\ video_frames # <<>>) :
            LET r == analyze_physical(session, physical_analyzer, video_frames,
                                      audio_segments, fails, tag)
            IN  /\ session' = save_session(session, r, FALSE)
                /\ physical_analyzer' = r.analyzer
    /\ UNCHANGED <<base_questions, interviews, predictions, submits, requests>>

Results ==
    /\ \E write_fails \in BOOLEAN :
         LET r == results(session, predictions, write_fails)
         IN  /\ session' = save_session(session, r, FALSE)
             /\ predictions' = r.files
    /\ UNCHANGED <<base_questions, interviews, physical_analyzer, submits, requests>>

Next ==
    \/ StartInterviewWithName
    \/ StartInterviewWithoutName
    \/ DebugStartInterviewDirect
    \/ TestQuestions
    \/ StartVideoInterview
    \/ VideoInterview
    \/ InterviewRoom
    \/ GetNextQuestion
    \/ SubmitAnswer
    \/ UpdatePhysicalAnalysis
    \/ AnalyzePhysical
    \/ Results

Spec == Init /\ [][Next]_vars

-----------------------------------------------------------------------------
(* Properties of one browser sending one request at a time (Spec).         *)

\* the responses of the session, as a set of positions
Answered(s) == 1..Len(s.responses)

\* get_next_question answers {'completed': True}
CompletedSignal(s) ==
    \A next_q \in generate_next_question : get_next_question(s, next_q).body.completed

\* C1: in every reachable state of an interview session the number of stored
\* responses equals current_question.
C1_ResponsesMatchIndex ==
    Active(session) => Len(session.responses) = session.current_question

\* C1 witness: a whole interview was answered, with a physical sample pushed
\* on the way, and every answer is stored.
C1_Witness ==
    /\ Active(session)
    /\ submits = TargetTotal
    /\ Len(session.responses) = TargetTotal
    /\ \E i \in Answered(session) : session.responses[i].physical_analysis # {}

\* C2 (as claimed): current_question never exceeds the session's target length,
\* however the session was started.
C2_IndexWithinTarget ==
    Active(session) => session.current_question <= TargetOf(session)

\* the handlers that open a new interview session
StartOperation ==
    \/ StartInterviewWithName
    \/ DebugStartInterviewDirect
    \/ TestQuestions
    \/ StartVideoInterview

\* C3: within one interview session current_question never decreases; only
\* submit_answer changes it, and only by +1.  (A step that changes
\* current_question and opens no new session is a submit_answer that adds 1.)
C3_IndexMonotone ==
    [][session'.current_question # session.current_question =>
          \/ /\ session'.current_question = session.current_question + 1
             /\ submits' = submits + 1
             /\ SubmitAnswer
          \/ StartOperation]_vars

\* C3 witness: an answer moved the index on and a physical sample was stored
\* for the following question.
C3_Witness ==
    /\ submits >= 1
    /\ session.current_question = submits
    /\ HasBucket(session, session.current_question)

\* C4 (amended): get_next_question gives the completed signal exactly when
\* targetLength submit_answer calls have gone through, and the aggregate
\* recorded in the interviews table at completion is the running score sum
\* divided by targetLength, rounded to one decimal place.
C4_CompletionAndAggregate ==
    Active(session) =>
        /\ CompletedSignal(session) <=> submits >= TargetOf(session)
        /\ \A r \in interviews : r.status = "completed" =>
              /\ submits = TargetOf(session)
              /\ r.total_questions = TargetOf(session)
              /\ r.overall_score =
                    10 * RoundDiv(session.score, 10 * TargetOf(session))

\* C4 witness: an interview with a database row was completed and its
\* aggregate recorded, where rounding changed the quotient.
C4_Witness ==
    /\ Active(session)
    /\ CompletedSignal(session)
    /\ \E r \in interviews :
          /\ r.status = "completed"
          /\ r.overall_score * TargetOf(session) # session.score

\* C4 (as claimed): the recorded aggregate equals the running score sum
\* divided by targetLength.
C4_ExactAggregate ==
    Active(session) =>
        /\ CompletedSignal(session) <=> submits >= TargetOf(session)
        /\ \A r \in interviews : r.status = "completed" =>
              r.overall_score * TargetOf(session) = session.score

\* C5 (as claimed): submit_answer on a session whose current_question has
\* reached the target length appends no response and leaves current_question,
\* score and the question list unchanged.
C5_CompletedSubmitIsNoOp ==
    [][(/\ SubmitAnswer
        /\ Active(session)
        /\ session.current_question >= TargetOf(session))
       => session' = session]_vars

\* C6 (as claimed): the stored score of a response is the scorer's base score
\* unless at least one physical sample was recorded for its question.
C6_MergeOnlyWithSamples ==
    \A i \in Answered(session) :
        LET r == session.responses[i]
        IN  (\A data \in r.physical_analysis : NoSamples(data)) => r.score = r.base

\* C7 (as claimed): a sample captured for an already answered question is never
\* added to the bucket of the new current question.
C7_NoStaleSampleInBucket ==
    \A b \in session.physical_analysis : b.data.tags \subseteq {b.q}

\* C8: the session holds a physical bucket for at most one question index, and
\* that index is current_question.
C8_OneBucketAtIndex ==
    /\ Cardinality(session.physical_analysis) <= 1
    /\ \A b \in session.physical_analysis : b.q = session.current_question

\* C8 witness: submit_answer has just committed a question that had a bucket;
\* the snapshot is in the response and the session holds no bucket.
C8_Witness ==
    /\ submits >= 1
    /\ session.current_question = submits
    /\ session.physical_analysis = {}
    /\ session.responses[submits].physical_analysis # {}

-----------------------------------------------------------------------------
(* Requests in flight (SpecConc).  The development server answers each     *)
(* request on a thread of its own, and the page posts physical samples on  *)
(* a timer while the candidate submits answers.  A request carries the     *)
(* cookie the browser held when it was sent; its handler works on that     *)
(* copy, and the browser keeps the cookie of the latest response that set  *)
(* one.                                                                    *)

\* the requests that have not been answered yet
Pending == {req \in requests : ~req.answered}

\* the page of a running interview can post another request
CanSend == Active(session) /\ Cardinality(requests) < MaxRequests

\* `requests` once the browser has sent a request for `op` with its cookie
Sent(op) ==
    requests \cup
        {[id |-> Cardinality(requests) + 1, op |-> op, cookie |-> session,
          pending |-> {req.id : req \in Pending},
          answered |-> FALSE, ok |-> FALSE]}

\* the server's answer to `req` arrived; ok: it reported success
Answer(req, ok) ==
    (requests \ {req}) \cup {[req EXCEPT !.answered = TRUE, !.ok = ok]}

\* the JSON body carries `field`: true
Reports(res, field) ==
    res.status = 200 /\ field \in DOMAIN res.body /\ res.body[field]

SendSubmitAnswer ==
    /\ CanSend
    /\ requests' = Sent("submit_answer")
    /\ UNCHANGED <<base_questions, session, interviews, physical_analyzer, predictions, submits>>

SendUpdatePhysicalAnalysis ==
    /\ CanSend
    /\ requests' = Sent("update_physical_analysis")
    /\ UNCHANGED <<base_questions, session, interviews, physical_analyzer, predictions, submits>>

SendAnalyzePhysical ==
    /\ CanSend
    /\ requests' = Sent("analyze_physical")
    /\ UNCHANGED <<base_questions, session, interviews, physical_analyzer, predictions, submits>>

AnswerSubmitAnswer ==
    \E req \in Pending, base \in BaseScores, next_q \in generate_next_question :
        LET r == submit_answer(req.cookie, interviews, base, "none", next_q)
        IN  /\ req.op = "submit_answer"
            /\ session' = save_session(session, r, FALSE)
            /\ interviews' = r.db
            /\ submits' = IF WentThrough(r, FALSE) THEN submits + 1 ELSE submits
            /\ requests' = Answer(req, Reports(r, "accepted"))
            /\ UNCHANGED <<base_questions, physical_analyzer, predictions>>

AnswerUpdatePhysicalAnalysis ==
    \E req \in Pending, frame \in {FailedFrame, GoodFrame} :
        LET r == update_physical_analysis(req.cookie, frame, NoAudio,
                                          req.cookie.current_question)
        IN  /\ req.op = "update_physical_analysis"
            /\ session' = save_session(session, r, FALSE)
            /\ requests' = Answer(req, Reports(r, "success") /\ frame.ok)
            /\ UNCHANGED <<base_questions, interviews, physical_analyzer, predictions, submits>>

AnswerAnalyzePhysical ==
    \E req \in Pending, video_frames \in Batches({GoodFrame}) \ {<<>>} :
        LET r == analyze_physical(req.cookie, physical_analyzer, video_frames,
                                  <<>>, FALSE, req.cookie.current_question)
        IN  /\ req.op = "analyze_physical"
            /\ session' = save_session(session, r, FALSE)
            /\ physical_analyzer' = r.analyzer
            /\ requests' = Answer(req, Reports(r, "success"))
            /\ UNCHANGED <<base_questions, interviews, predictions, submits>>

NextConc ==
    \/ StartVideoInterview
    \/ SendSubmitAnswer
    \/ SendUpdatePhysicalAnalysis
    \/ SendAnalyzePhysical
    \/ AnswerSubmitAnswer
    \/ AnswerUpdatePhysicalAnalysis
    \/ AnswerAnalyzePhysical

SpecConc == Init /\ [][NextConc]_vars

\* one of the two requests was sent while the other was unanswered
Overlap(a, b) == a.id \in b.pending \/ b.id \in a.pending

\* the requests of `ops` that were answered with success
Succeeded(ops) == {req \in requests : req.op \in ops /\ req.answered /\ req.ok}

\* C9 (as claimed): when submit_answer runs concurrently with the ingestion of
\* a sample for the same question, the sample is neither lost nor dropped: it
\* is in the snapshot of a committed response or still in a bucket.
C9_SampleSnapshotOrBucket ==
    \A p \in Succeeded({"update_physical_analysis", "analyze_physical"}),
       s \in Succeeded({"submit_answer"}) :
        (/\ Overlap(p, s)
         /\ p.cookie.current_question = s.cookie.current_question)
        => \/ session.physical_analysis # {}
           \/ \E i \in Answered(session) : session.responses[i].physical_analysis # {}

\* C10 (as claimed): concurrent requests against one session leave it as some
\* serial order would, so every submit_answer that went through has its
\* response in the session.
C10_NoResponseLost ==
    Active(session) => Len(session.responses) = submits

-----------------------------------------------------------------------------
(* Two candidates on one server (SpecShared).  `physical_analyzer` is one  *)
(* object of the process (app.py creates it at import), so the requests of *)
(* every browser go through it.  `session` is the cookie of the candidate  *)
(* under observation; the other candidate's cookie is their own browser's  *)
(* and is not tracked.  The other candidate's frames score differently, so *)
(* an analysis shows whose samples it was computed from.                   *)

\* analyze_video_frame's result for a frame of the other candidate
OtherFrame == [sent |-> TRUE, ok |-> TRUE, confidence |-> 200, posture_score |-> 300]

\* the other candidate's session: a video interview that has just started
OtherSession == start_video_interview(EmptySession, <<>>).s

\* POST /analyze_physical from the other candidate's browser
OtherAnalyzePhysical ==
    /\ \E video_frames \in Batches({OtherFrame}) \ {<<>>} :
         physical_analyzer' =
             analyze_physical(OtherSession, physical_analyzer, video_frames,
                              <<>>, FALSE, 0).analyzer
    /\ UNCHANGED <<base_questions, session, interviews, predictions, submits, requests>>

NextShared ==
    \/ StartVideoInterview
    \/ AnalyzePhysical
    \/ OtherAnalyzePhysical
    \/ SubmitAnswer

SpecShared == Init /\ [][NextShared]_vars

\* the analysis was computed from a frame of the other candidate
FromOther(data) ==
    \E i \in DOMAIN data.confidence_scores :
        data.confidence_scores[i] = OtherFrame.confidence

\* C11 (as claimed): the physical analysis stored in a session, and the
\* snapshot merged into the score of one of its responses, is computed only
\* from that session's own samples, never from those of another session that
\* went through the same PhysicalAnalyzer.
C11_NoForeignAnalysis ==
    /\ \A b \in session.physical_analysis : ~FromOther(b.data)
    /\ \A i \in Answered(session) :
          \A data \in session.responses[i].physical_analysis : ~FromOther(data)

-----------------------------------------------------------------------------
(* The question list (Spec).                                               *)

\* C12 (as claimed): in every reachable state of a session
\* current_question <= len(questions) <= targetLength.  (Sessions opened by
\* test_questions are left aside: their three literal questions are fewer
\* than config.py's target and more than the model's.)
C12_IndexListTarget ==
    (Active(session) /\ session.interview_id # TestId) =>
        /\ session.current_question <= Len(session.questions)
        /\ Len(session.questions) <= TargetOf(session)

\* C13 (as claimed): questions are generated lazily and sequentially, so in
\* every reachable state len(questions) <= current_question + 1.  Stated for
\* the sessions opened by start_interview_with_name, which the claim cites.
C13_OneQuestionAhead ==
    (Active(session) /\ session.interview_id = RowId) =>
        Len(session.questions) <= session.current_question + 1

\* The handlers that read or write the question list: the physical analysis
\* and the final report leave it alone.
NextQuestionList ==
    \/ StartInterviewWithName
    \/ DebugStartInterviewDirect
    \/ TestQuestions
    \/ StartVideoInterview
    \/ VideoInterview
    \/ InterviewRoom
    \/ GetNextQuestion
    \/ SubmitAnswer

SpecQuestionList == Init /\ [][NextQuestionList]_vars

\* C14: asking for the current question twice in a row, with no submit_answer
\* in between, gives the same answer both times and appends to the question
\* list at most once: the second call of get_next_question (of interview_room)
\* returns what the first returned and leaves the session as the first left
\* it, whatever the generator would come up with the second time.
C14_EnsureIdempotent ==
    \A n1 \in NextQuestions, n2 \in NextQuestions,
       b1 \in generate_questions_raw(1), b2 \in generate_questions_raw(1) :
        LET g1 == get_next_question(session, n1)
            sg == save_session(session, g1, FALSE)
            g2 == get_next_question(sg, n2)
            r1 == interview_room(session, b1, n1)
            sr == save_session(session, r1, FALSE)
            r2 == interview_room(sr, b2, n2)
        IN  /\ g2.body = g1.body
            /\ save_session(sg, g2, FALSE) = sg
            /\ Len(sg.questions) <= Len(session.questions) + 1
            /\ r2.body = r1.body
            /\ save_session(sr, r2, FALSE) = sr
            /\ Len(sr.questions) <= Len(session.questions) + 1

\* C14 witness: an active session whose current question is missing, so that
\* the first interview_room call generates and appends it.
C14_Witness ==
    /\ Active(session)
    /\ session.current_question >= 1
    /\ \E n1 \in NextQuestions :
          LET r1 == interview_room(session, <<>>, n1)
          IN  /\ r1.status = 200
              /\ r1.body.question = n1
              /\ Len(r1.s.questions) = Len(session.questions) + 1

-----------------------------------------------------------------------------
(* Failures inside submit_answer (Spec).                                   *)

\* C16 (as claimed): submit_answer on an active session that is not completed
\* always commits the answer and moves current_question on by exactly one,
\* also when the step that persists the responses fails.  (Stated for the
\* sessions that hold a job role and a score, which submit_answer reads.)
C16_SubmitAlwaysCommits ==
    (/\ Active(session)
     /\ Has(session, "job_role") /\ Has(session, "score")
     /\ session.current_question < TargetOf(session)
     /\ session.current_question < Len(session.questions))
    => \A base \in BaseScores, db_fail \in DbFailures,
          next_q \in generate_next_question :
          LET r == submit_answer(session, interviews, base, db_fail, next_q)
          IN  \A propagate \in Propagation(r) :
                 LET after == save_session(session, r, propagate)
                 IN  /\ after.current_question = session.current_question + 1
                     /\ Len(after.responses) = Len(session.responses) + 1

-----------------------------------------------------------------------------
(* The final report and its archive (Spec).                                *)

\* C17 (as claimed): results is computable only for a completed session: while
\* current_question is below the target length no final record of the
\* interview has been produced or archived.
C17_NoRecordBeforeCompleted ==
    (Active(session) /\ session.current_question < TargetOf(session))
    => predictions = {}

\* C18 (as claimed): the archive is write-once per session: at most one record
\* is written for an interview id, and a record that was written is never
\* written over by a later call.  (A record of the interview in progress
\* stays in the archive as it was written; `predictions` is emptied only when
\* a new interview starts and the model turns to its file.)
C18_ArchiveWriteOnce ==
    [][\A f \in predictions : predictions' = {} \/ f \in predictions']_vars

-----------------------------------------------------------------------------
(* interview_app.py (SpecInterviewApp): the second application of the      *)
(* repository, the one tests/test_api_routes.py imports.  It has the same  *)
(* routes over the same session keys; the handlers below are the ones that *)
(* differ from app.py.  Its update_physical_analysis differs from app.py's *)
(* only in fields the model does not track (person counts, phone           *)
(* detections, emotions), so update_physical_analysis stands for both.     *)

\* question_generator.generate_questions(job_role, resume_analysis, n)
generate_questions(n) == generate_questions_raw(n)

\* "Ensure we have at least minimum questions" and "Final fallback - use base
\* questions": the list start_video_interview and interview_room store
\* "while len(base_questions) < Config.MIN_QUESTIONS: base_questions.extend(...)":
\* base_questions is the bank's own list, so the list extends itself in place
\* (an empty list never leaves the loop: EnsureQuestions reports it as `hangs`)
RECURSIVE ExtendBank(_)
ExtendBank(bank) ==
    IF Len(bank) < MIN_QUESTIONS THEN ExtendBank(bank \o bank) ELSE bank

EnsureQuestions(generated, additional, bank) ==
    LET remaining == MIN_QUESTIONS - Len(generated)
        questions == IF Len(generated) < MIN_QUESTIONS
                     THEN generated \o SubSeq(additional, 1,
                                              Min(Len(additional), remaining))
                     ELSE generated
    IN  IF Len(questions) < MIN_QUESTIONS /\ bank = <<>>
        THEN [questions |-> questions, base_questions |-> bank, hangs |-> TRUE]
        ELSE IF Len(questions) < MIN_QUESTIONS
        THEN [questions |-> SubSeq(ExtendBank(bank), 1, MIN_QUESTIONS),
              base_questions |-> ExtendBank(bank), hangs |-> FALSE]
        ELSE [questions |-> questions, base_questions |-> bank, hangs |-> FALSE]

\* interview_app.py start_interview_with_name
ia_start_interview_with_name(s) ==
    LET s1 == SetFlag(SetKey(EmptySession, "interview_id", TokenId),
                      "candidate_name")
    IN  Result(SetFlag(InitProgress(s1), "job_role"), TRUE, FALSE, 302, NoBody)

\* interview_app.py start_video_interview
ia_start_video_interview(s, generated, additional, bank) ==
    LET s1 == InitProgress(SetKey(EmptySession, "interview_id", TokenId))
        s2 == SetFlag(SetFlag(s1, "job_role"), "questions_source")
        ensured == EnsureQuestions(generated, additional, bank)
    IN  Result(SetKey(s2, "questions", ensured.questions),
               TRUE, FALSE, 302, NoBody)
        @@ [base_questions |-> ensured.base_questions, hangs |-> ensured.hangs]

\* interview_app.py interview_room
ia_interview_room(s, generated, additional, bank) ==
    IF ~Active(s)
    THEN Result(s, FALSE, FALSE, 302, NoBody)
         @@ [base_questions |-> bank, hangs |-> FALSE]
    ELSE
    LET generates == ~Has(s, "questions") \/ s.questions = <<>>
        ensured == IF generates
                   THEN EnsureQuestions(generated, additional, bank)
                   ELSE [questions |-> s.questions, base_questions |-> bank,
                         hangs |-> FALSE]
        s1 == IF generates
              THEN SetKey(SetKey(s, "questions", ensured.questions),
                          "current_question", 0)
              ELSE s
        current_q == s1.current_question
    IN  (IF ensured.hangs \/ current_q >= Len(s1.questions)
         THEN Result(s1, s1 # s, FALSE, 302, [completed |-> TRUE])
         ELSE Result(s1, s1 # s, FALSE, 200,
                     [completed |-> FALSE, question |-> s1.questions[current_q + 1],
                      question_num |-> current_q + 1]))
        @@ [base_questions |-> ensured.base_questions, hangs |-> ensured.hangs]

\* interview_app.py get_next_question
ia_get_next_question(s) ==
    IF ~Active(s) THEN Result(s, FALSE, FALSE, 400, NoBody)
    ELSE IF ~Has(s, "current_question") \/ ~Has(s, "questions")
    THEN \* session['questions'] raises KeyError
         Result(s, FALSE, TRUE, 500, NoBody)
    ELSE IF s.current_question >= Len(s.questions)
    THEN Result(s, FALSE, FALSE, 200, [completed |-> TRUE])
    ELSE Result(s, FALSE, FALSE, 200,
                [completed |-> FALSE, question |-> s.questions[s.current_question + 1],
                 question_num |-> s.current_question + 1])

\* interview_app.py submit_answer
ia_submit_answer(s, base) ==
    IF ~Active(s) THEN Result(s, FALSE, FALSE, 400, NoBody)
    ELSE IF ~Has(s, "current_question") \/ ~Has(s, "questions")
    THEN Result(s, FALSE, TRUE, 500, NoBody)
    ELSE IF s.current_question >= Len(s.questions)
    THEN Result(s, FALSE, FALSE, 200,
                [next_question |-> s.current_question, score |-> 0,
                 feedback |-> "Interview completed!", completed |-> TRUE,
                 accepted |-> FALSE])
    ELSE
    LET current_q == s.current_question
        response_data == ResponseData(s, current_q, base)
        s1 == Advance(PopBucket(AppendResponse(s, response_data), current_q),
                      response_data.score)
    IN  Result(s1, TRUE, FALSE, 200,
               SubmitBody(s1, response_data, s1.current_question >= Len(s1.questions)))

\* interview_app.py analyze_physical
ia_analyze_physical(s, analyzer, video_frames, audio_segments, fails, tag) ==
    IF ~Active(s) \/ (video_frames = <<>> /\ audio_segments = <<>>)
    THEN \* "return empty success to keep UI alive"
         Result(s, FALSE, FALSE, 200, [success |-> TRUE, analysis |-> {}])
         @@ [analyzer |-> analyzer]
    ELSE analyze_physical(s, analyzer, video_frames, audio_segments, fails, tag)

\* a request whose handler is in the fallback's while loop for good: it is
\* never answered, and the browser keeps the cookie it had
Hung(handler) == [handler |-> handler, hung |-> TRUE]

IaStartInterviewWithName ==
    /\ session' = save_session(session, ia_start_interview_with_name(session), FALSE)
    /\ UNCHANGED <<base_questions, interviews, physical_analyzer, predictions, submits, requests>>

IaStartVideoInterview ==
    /\ \E generated \in generate_questions(DEFAULT_QUESTIONS),
          additional \in generate_questions(MIN_QUESTIONS) :
         LET r == ia_start_video_interview(session, generated, additional,
                                           base_questions)
         IN  /\ session' = IF r.hangs THEN session
                            ELSE save_session(session, r, FALSE)
             /\ base_questions' = r.base_questions
             /\ requests' = IF r.hangs THEN requests \cup {Hung("start_video_interview")}
                             ELSE requests
    /\ UNCHANGED <<interviews, physical_analyzer, predictions, submits>>

IaInterviewRoom ==
    /\ \E generated \in generate_questions(DEFAULT_QUESTIONS),
          additional \in generate_questions(MIN_QUESTIONS) :
         LET r == ia_interview_room(session, generated, additional,
                                    base_questions)
         IN  /\ session' = IF r.hangs THEN session
                            ELSE save_session(session, r, FALSE)
             /\ base_questions' = r.base_questions
             /\ requests' = IF r.hangs THEN requests \cup {Hung("interview_room")}
                             ELSE requests
    /\ UNCHANGED <<interviews, physical_analyzer, predictions, submits>>

IaGetNextQuestion ==
    /\ session' = save_session(session, ia_get_next_question(session), FALSE)
    /\ UNCHANGED <<base_questions, interviews, physical_analyzer, predictions, submits, requests>>

IaSubmitAnswer ==
    /\ \E base \in BaseScores :
         LET r == ia_submit_answer(session, base)
         IN  \E propagate \in Propagation(r) :
                session' = save_session(session, r, propagate)
    /\ UNCHANGED <<base_questions, interviews, physical_analyzer, predictions, submits, requests>>

IaAnalyzePhysical ==
    /\ \E video_frames \in Batches({GoodFrame}), fails \in BOOLEAN :
         \E tag \in SampleTags(session, ~fails /\ video_frames # <<>>) :
            LET r == ia_analyze_physical(session, physical_analyzer, video_frames,
                                         <<>>, fails, tag)
            IN  /\ session' = save_session(session, r, FALSE)
                /\ physical_analyzer' = r.analyzer
    /\ UNCHANGED <<base_questions, interviews, predictions, submits, requests>>

\* a decorator that lets every session through
require_admin_NoCheck(s) == TRUE

\* interview_app.py require_admin: the wrapped handler runs only for a session
\* whose admin_logged_in is set; any other request is redirected to admin_login
require_admin(s) == Has(s, "admin_logged_in")

\* interview_app.py admin_login: session['admin_logged_in'] = True for the
\* right password (password_ok: the posted password equals ADMIN_PASSWORD)
admin_login(s, password_ok) ==
    IF password_ok
    THEN Result(SetFlag(s, "admin_logged_in"), TRUE, FALSE, 302, NoBody)
    ELSE Result(s, FALSE, FALSE, 200, NoBody)

\* interview_app.py admin_logout: session.pop('admin_logged_in', None)
admin_logout(s) ==
    Result([s EXCEPT !.keys = @ \ {"admin_logged_in"}],
           Has(s, "admin_logged_in"), FALSE, 302, NoBody)

\* interview_app.py cancel_interview: session.clear() for an active interview
cancel_interview(s) ==
    IF Active(s) THEN Result(EmptySession, TRUE, FALSE, 200, NoBody)
    ELSE Result(s, FALSE, FALSE, 200, NoBody)

AdminLogin ==
    /\ \E password_ok \in BOOLEAN :
         session' = save_session(session, admin_login(session, password_ok), FALSE)
    /\ UNCHANGED <<base_questions, interviews, physical_analyzer, predictions, submits, requests>>

AdminLogout ==
    /\ session' = save_session(session, admin_logout(session), FALSE)
    /\ UNCHANGED <<base_questions, interviews, physical_analyzer, predictions, submits, requests>>

CancelInterview ==
    /\ session' = save_session(session, cancel_interview(session), FALSE)
    /\ UNCHANGED <<base_questions, interviews, physical_analyzer, predictions, submits, requests>>

NextInterviewApp ==
    \/ AdminLogin
    \/ AdminLogout
    \/ CancelInterview
    \/ IaStartInterviewWithName
    \/ IaStartVideoInterview
    \/ IaInterviewRoom
    \/ IaGetNextQuestion
    \/ IaSubmitAnswer
    \/ IaAnalyzePhysical
    \/ UpdatePhysicalAnalysis

\* interview_app.py loads the bank of data/questions/interview_questions.json;
\* the list of a role holds any number of questions, none included
InitInterviewApp ==
    /\ session = EmptySession
    /\ interviews = {}
    /\ physical_analyzer = InitialAnalysis
    /\ predictions = {}
    /\ submits = 0
    /\ requests = {}
    /\ base_questions \in {Repeat(FallbackQuestion, k) : k \in 0..MaxBank}

SpecInterviewApp == InitInterviewApp /\ [][NextInterviewApp]_vars

\* C19 (as claimed): submit_answer, get_next_question, update_physical_analysis
\* and analyze_physical, invoked when no interview is active, each answer with
\* the no-active-session error and leave the session as it was, in app.py and
\* in interview_app.py.
C19_NoActiveSessionError ==
    ~Active(session) =>
        \A base \in BaseScores, frame \in FrameInputs, audio \in AudioInputs,
           video_frames \in Batches({GoodFrame}), fails \in BOOLEAN,
           next_q \in generate_next_question :
            LET Refused(res) ==
                    /\ res.status = 400
                    /\ save_session(session, res, FALSE) = session
            IN  /\ Refused(submit_answer(session, interviews, base, "none", next_q))
                /\ Refused(get_next_question(session, next_q))
                /\ Refused(update_physical_analysis(session, frame, audio, 0))
                /\ Refused(analyze_physical(session, physical_analyzer,
                                            video_frames, <<>>, fails, 0))
                /\ Refused(ia_submit_answer(session, base))
                /\ Refused(ia_get_next_question(session))
                /\ Refused(ia_analyze_physical(session, physical_analyzer,
                                               video_frames, <<>>, fails, 0))

\* C20 (as claimed): for every active session, however it was started, asking
\* for the current question raises no error and returns the question at index
\* current_question or the completed signal; it never fails because the
\* session has no question list yet.
C20_CurrentQuestionServed ==
    Active(session) =>
        LET r == ia_get_next_question(session)
        IN  /\ ~r.exc
            /\ r.status = 200
            /\ \/ r.body.completed
               \/ r.body.question = session.questions[session.current_question + 1]

-----------------------------------------------------------------------------
(* The target length (Spec).                                               *)

-----------------------------------------------------------------------------
(* The static question bank (SpecInterviewApp).                            *)

\* C22 (as claimed): the static question bank is read-only; no session
\* operation, the fallback that repeats bank entries included, changes the
\* contents or the length of a role's list.
C22_BankReadOnly == [][base_questions' = base_questions]_vars

-----------------------------------------------------------------------------
(* The merge of the spec's worked example (SpecMerge): an answer whose base *)
(* score is 6.0, given with physical samples on record.                     *)

\* ai_interviewer.analyze_answer(...)[0] in the worked example
ExampleBaseScores == {600}

\* submit_answer for an answer of the worked example
SubmitExampleAnswer ==
    /\ \E base \in ExampleBaseScores, db_fail \in DbFailures,
          next_q \in generate_next_question :
         LET r == submit_answer(session, interviews, base, db_fail, next_q)
         IN  \E propagate \in Propagation(r) :
                /\ session' = save_session(session, r, propagate)
                /\ interviews' = r.db
                /\ submits' = IF WentThrough(r, propagate) THEN submits + 1
                              ELSE submits
    /\ UNCHANGED <<base_questions, physical_analyzer, predictions, requests>>

NextMerge ==
    \/ StartVideoInterview
    \/ UpdatePhysicalAnalysis
    \/ AnalyzePhysical
    \/ SubmitExampleAnswer

SpecMerge == Init /\ [][NextMerge]_vars

\* the bucket of the worked example: averages 8, 7 and 5
ExampleAverages(d) ==
    d.confidence = 800 /\ d.voice_quality = 700 /\ d.body_language = 500

\* C23: with the default weights, samples averaging confidence 8, voice 7 and
\* posture 5 give an overall physical score of 6.9, and an answer of base score
\* 6.0 merged with it is stored with 6.0*0.7 + 6.9*0.3 = 6.27 rounded to the
\* precision of the merge, one decimal: 6.3.
C23_MergeExample ==
    \A i \in 1..Len(session.responses) :
       LET response == session.responses[i]
       IN  \A d \in response.physical_analysis :
              (response.base = 600 /\ ExampleAverages(d)) =>
                 /\ d.overall_physical_score = 690
                 /\ 600 * ANSWER_SHARE + 690 * PHYSICAL_SHARE = 6270
                 /\ response.score = 630

\* an answer of base score 6.0 was stored with the example's bucket
C23_Witness ==
    \E i \in 1..Len(session.responses) :
       /\ session.responses[i].base = 600
       /\ \E d \in session.responses[i].physical_analysis : ExampleAverages(d)

-----------------------------------------------------------------------------
(* interview_app.py: the /.well-known/ probes (SpecProbes).  `requests`    *)
(* keeps every probe the server has answered, with its answer.             *)

\* the file a probe names: os.path.exists is false, the file is read, or the
\* file exists and reading it raises
FileStates == {"absent", "present", "unreadable"}

\* /.well-known/appspecific/com.chrome.devtools.json
ServeChromeDevtoolsProbe ==
    /\ \E file \in FileStates :
         requests' = requests \cup
            {[path |-> "appspecific/com.chrome.devtools.json", file |-> file,
              status |-> IF file = "unreadable" THEN 204 ELSE 200,
              body |-> CASE file = "present" -> "content"
                         [] file = "absent" -> "{}"
                         [] OTHER -> ""]}
    /\ UNCHANGED <<base_questions, session, interviews, physical_analyzer, predictions, submits>>

\* /.well-known/appspecific/<path:filename>: the rule Werkzeug prefers to the
\* catch-all for every other path under appspecific/
AppspecificProbe ==
    /\ \E file \in FileStates :
         requests' = requests \cup
            {[path |-> "appspecific/other.json", file |-> file,
              status |-> 204, body |-> ""]}
    /\ UNCHANGED <<base_questions, session, interviews, physical_analyzer, predictions, submits>>

\* /.well-known/<path:subpath>
WellKnownCatchAll ==
    /\ \E file \in FileStates :
         requests' = requests \cup
            {[path |-> "this/is/a/test.json", file |-> file,
              status |-> 200,
              body |-> IF file = "present" THEN "content" ELSE "{}"]}
    /\ UNCHANGED <<base_questions, session, interviews, physical_analyzer, predictions, submits>>

NextProbes ==
    \/ ServeChromeDevtoolsProbe
    \/ AppspecificProbe
    \/ WellKnownCatchAll

SpecProbes == InitInterviewApp /\ [][NextProbes]_vars

\* C24 (as claimed): a GET on any path under /.well-known/ is answered with
\* status 200, never 404, and with an empty JSON body when no matching file
\* exists.
C24_WellKnownAlways200 ==
    \A req \in requests :
       /\ req.status = 200
       /\ req.file = "absent" => req.body = "{}"

-----------------------------------------------------------------------------
(* interview_app.py: the session's question list over the API              *)
(* (SpecInterviewApp).                                                     *)

\* a route that looks for the interview and not for its question list
api_session_questions_NoListCheck(s) ==
    IF ~Active(s)
    THEN Result(s, FALSE, FALSE, 404, NoBody)
    ELSE Result(s, FALSE, FALSE, 200, [completed |-> FALSE, questions |-> s.questions])

\* interview_app.py api_session_questions
api_session_questions(s) ==
    IF ~Active(s) \/ ~Has(s, "questions")
    THEN Result(s, FALSE, FALSE, 404, NoBody)
    ELSE Result(s, FALSE, FALSE, 200, [completed |-> FALSE, questions |-> s.questions])

\* C25: GET /api/session/questions answers 404 whenever the session has no
\* active interview or the interview has no generated question list, as after
\* start_interview_with_name, and answers with the session's own question list
\* otherwise.
C25_SessionQuestions ==
    LET r == api_session_questions(session)
    IN  IF ~Active(session) \/ session.questions = <<>>
        THEN r.status = 404
        ELSE r.status = 200 /\ r.body.questions = session.questions

\* an interview started by name, whose questions are not generated yet
C25_Witness ==
    /\ Active(session)
    /\ Has(session, "candidate_name")
    /\ session.questions = <<>>

\* a route that answers 404 without an interview, as api_session_questions does
api_questions_source_NotFound(s) ==
    IF Active(s)
    THEN Result(s, FALSE, FALSE, 200,
                [completed |-> FALSE,
                 questions_source |-> IF Has(s, "questions_source") THEN "source"
                                      ELSE "null"])
    ELSE Result(s, FALSE, FALSE, 404, NoBody)

\* interview_app.py api_questions_source; "source" stands for the value
\* start_video_interview stored, "null" for None
api_questions_source(s) ==
    Result(s, FALSE, FALSE, 200,
           [completed |-> FALSE,
            questions_source |-> IF Active(s) /\ Has(s, "questions_source")
                                 THEN "source" ELSE "null"])

\* C26: GET /api/questions_source answers 200 with questions_source null
\* whenever no interview is active, whatever other keys the session holds.
C26_SourceNullWithoutInterview ==
    ~Active(session) =>
        LET r == api_questions_source(session)
        IN  r.status = 200 /\ r.body.questions_source = "null"

\* no interview is active and the session still holds a key
C26_Witness == ~Active(session) /\ session.keys # {}

-----------------------------------------------------------------------------
(* Pre-generation (SpecQuestionList).                                      *)

\* C27: after every submit_answer that does not complete the session, the
\* question at the new current_question is already in the question list, so
\* the next get_next_question or interview_room call generates nothing.
C27_NextQuestionReady ==
    \A base \in BaseScores, db_fail \in DbFailures, next_q \in NextQuestions :
       LET r == submit_answer(session, interviews, base, db_fail, next_q)
           after == save_session(session, r, FALSE)
       IN  (r.status = 200 /\ r.body.accepted /\ ~r.body.completed) =>
              /\ after.current_question = session.current_question + 1
              /\ after.current_question < Len(after.questions)
              /\ \A n \in NextQuestions, b \in generate_questions_raw(1) :
                    /\ get_next_question(after, n).s.questions = after.questions
                    /\ interview_room(after, b, n).s.questions = after.questions

\* a submit_answer that did not complete the session has appended the
\* question of the new index to a list that ended at the answered question
C27_Witness ==
    /\ Active(session)
    /\ submits > 0
    /\ session.current_question < TargetOf(session)
    /\ Len(session.questions) = session.current_question + 1
    /\ session.questions[session.current_question + 1] \in generate_next_question

-----------------------------------------------------------------------------
(* The running score (SpecMerge).                                          *)

\* C28: in every reachable state the session's running score is the sum of the
\* scores of the stored responses, and the score of a response is the merged
\* score its submission returned to the caller.
C28_ScoreIsSumOfResponses ==
    /\ session.score =
          Sum([i \in 1..Len(session.responses) |-> session.responses[i].score])
    /\ \A base \in ExampleBaseScores \cup BaseScores, db_fail \in DbFailures,
          next_q \in generate_next_question :
          LET r == submit_answer(session, interviews, base, db_fail, next_q)
          IN  (r.status = 200 /\ r.body.accepted) =>
                 LET stored == r.s.responses[Len(r.s.responses)]
                 IN  /\ Len(r.s.responses) = Len(session.responses) + 1
                     /\ stored.score = r.body.score
                     /\ stored.score =
                           MergedScore(session, session.current_question, base)
                     /\ r.s.score = session.score + r.body.score

\* two answers are stored, one of them with a score the merge has changed
C28_Witness ==
    /\ Len(session.responses) = 2
    /\ session.score > 0
    /\ \E i \in 1..2 : session.responses[i].score # session.responses[i].base

-----------------------------------------------------------------------------
(* The response list is append-only (Spec).                                *)

\* C29: responses are created once per question and never changed: the i-th
\* stored response (counting from 0) has question_index i, and every step
\* either starts a new interview or keeps each stored response as it was,
\* adding at most one at the end.
C29_ResponsesAppendOnly ==
    [][/\ \A i \in 1..Len(session'.responses) :
             session'.responses[i].question_index = i - 1
       /\ \/ session'.responses = <<>> /\ submits' = 0
          \/ /\ Len(session'.responses) \in
                   {Len(session.responses), Len(session.responses) + 1}
             /\ \A i \in 1..Len(session.responses) :
                   session'.responses[i] = session.responses[i]]_vars

\* a second response was appended behind the first
C29_Witness == Len(session.responses) = 2 /\ submits = 2

-----------------------------------------------------------------------------
(* The bucket of the question being answered (SpecInterviewApp).           *)

\* C30 (as claimed): within one question the sample lists of the bucket only
\* grow: whatever update_physical_analysis and analyze_physical calls came
\* before, a further update_physical_analysis call succeeds, and the sample it
\* accepts is in the bucket afterwards together with the earlier ones.
C30_BucketOnlyGrows ==
    Active(session) =>
       \A frame \in FrameInputs, audio \in AudioInputs :
          (frame.sent \/ audio.sent) =>
             LET current_q == session.current_question
                 r == update_physical_analysis(session, frame, audio, current_q)
                 after == save_session(session, r, FALSE)
                 before == IF HasBucket(session, current_q)
                           THEN BucketOf(session, current_q).confidence_scores
                           ELSE <<>>
             IN  /\ r.status = 200 /\ r.body.success
                 /\ frame.ok =>
                       /\ HasBucket(after, current_q)
                       /\ BucketOf(after, current_q).confidence_scores
                             = Append(before, frame.confidence)

-----------------------------------------------------------------------------
(* The bucket's averages and counters (SpecSamples): batches in which the  *)
(* analysis of a frame may fail.                                           *)

\* analyze_physical with frames of which some are not analysable
AnalyzePhysicalBatch ==
    /\ \E video_frames \in Batches({GoodFrame, FailedFrame}), fails \in BOOLEAN :
         \E tag \in SampleTags(session, ~fails /\ video_frames # <<>>) :
            LET r == analyze_physical(session, physical_analyzer, video_frames,
                                      <<>>, fails, tag)
            IN  /\ session' = save_session(session, r, FALSE)
                /\ physical_analyzer' = r.analyzer
    /\ UNCHANGED <<base_questions, interviews, predictions, submits, requests>>

NextSamples ==
    \/ StartVideoInterview
    \/ UpdatePhysicalAnalysis
    \/ AnalyzePhysicalBatch
    \/ SubmitAnswer

SpecSamples == Init /\ [][NextSamples]_vars

\* C31 (as claimed): after every update_physical_analysis call each average of
\* the bucket is the arithmetic mean of its sample list when the list is not
\* empty, overall_physical_score is the weighted sum of the current averages,
\* frame_count is the number of confidence and of posture samples, and
\* audio_segment_count is the number of voice samples.
C31_AveragesAndCounters ==
    Active(session) =>
       \A frame \in FrameInputs, audio \in AudioInputs :
          LET r == update_physical_analysis(session, frame, audio,
                                            session.current_question)
          IN  (r.status = 200 /\ r.body.success) =>
                 LET d == r.body.current_analysis
                 IN  /\ d.confidence_scores # <<>> =>
                           d.confidence * Len(d.confidence_scores)
                              = Sum(d.confidence_scores)
                     /\ d.posture_scores # <<>> =>
                           d.body_language * Len(d.posture_scores)
                              = Sum(d.posture_scores)
                     /\ d.voice_scores # <<>> =>
                           d.voice_quality * Len(d.voice_scores)
                              = Sum(d.voice_scores)
                     /\ d.overall_physical_score =
                           OverallPhysical(d.confidence, d.voice_quality,
                                           d.body_language)
                     /\ d.frame_count = Len(d.confidence_scores)
                     /\ d.frame_count = Len(d.posture_scores)
                     /\ d.audio_segment_count = Len(d.voice_scores)

-----------------------------------------------------------------------------
(* The feedback tier (SpecSamples).                                        *)

\* base scores on and next to the bounds of the tiers
TierBaseScores == {0, 390, 400, 590, 600, 790, 800, 1000}

\* C32: the feedback tier submit_answer returns is a fixed function of the
\* score with inclusive lower bounds: 8 and more is excellent, 6 to below 8
\* good, 4 to below 6 okay, below 4 needs work; the score is the one stored in
\* the response.
C32_FeedbackTier ==
    LET InBand(feedback, score) ==
           /\ feedback = "excellent" <=> score >= 800
           /\ feedback = "good" <=> (600 <= score /\ score < 800)
           /\ feedback = "okay" <=> (400 <= score /\ score < 600)
           /\ feedback = "needs_work" <=> score < 400
    IN  /\ \A i \in 1..Len(session.responses) :
              InBand(session.responses[i].feedback, session.responses[i].score)
        /\ \A base \in TierBaseScores, next_q \in generate_next_question :
              LET r == submit_answer(session, interviews, base, "none", next_q)
              IN  (r.status = 200 /\ r.body.accepted) =>
                     /\ InBand(r.body.feedback, r.body.score)
                     /\ r.s.responses[Len(r.s.responses)].score = r.body.score
                     /\ r.s.responses[Len(r.s.responses)].feedback = r.body.feedback

\* a stored answer whose merged score falls in another tier than its base score
C32_Witness ==
    \E i \in 1..Len(session.responses) :
       /\ session.responses[i].base = 800
       /\ session.responses[i].score < 800
       /\ session.responses[i].feedback = "good"

-----------------------------------------------------------------------------
(* The fallback's loop (SpecInterviewApp).                                 *)

\* C33 (as claimed): the fallback that fills the question list from the static
\* bank terminates for every role, a role with an empty list included, so no
\* request that starts or resumes an interview is left unanswered, and the
\* list it stores holds exactly MIN_QUESTIONS questions.
C33_FallbackTerminates ==
    /\ \A req \in requests : ~req.hung
    /\ (Active(session) /\ session.questions # <<>>
           /\ \A i \in 1..Len(session.questions) :
                 session.questions[i] = FallbackQuestion) =>
          Len(session.questions) = MIN_QUESTIONS

-----------------------------------------------------------------------------
(* The resume analysis of the session (SpecResume).                        *)

\* resume_analyzer.analyze_resume_file(filepath): the analysis of an upload
ResumeAnalyses == {"resume_1", "resume_2"}

\* app.py analyze_resume, POST with a file of an allowed type
AnalyzeResume ==
    /\ \E analysis \in ResumeAnalyses :
         session' = SetFlag(SetKey(session, "resume_analysis", analysis),
                            "resume_file")
    /\ UNCHANGED <<base_questions, interviews, physical_analyzer, predictions, submits, requests>>

NextResume ==
    \/ AnalyzeResume
    \/ StartVideoInterview
    \/ InterviewRoom
    \/ GetNextQuestion
    \/ UpdatePhysicalAnalysis
    \/ SubmitAnswer

SpecResume == Init /\ [][NextResume]_vars

\* C34 (as claimed): the resume analysis stored in the session when an
\* interview is created is the one the interview works with: a step that
\* starts or continues an interview keeps the stored analysis, unchanged, in
\* the session that question generation and answer scoring read.
C34_ResumeAnalysisKept ==
    [][(Has(session, "resume_analysis") /\ Active(session')) =>
          /\ Has(session', "resume_analysis")
          /\ session'.resume_analysis = session.resume_analysis]_vars

-----------------------------------------------------------------------------
(* A failed archive write (Spec).                                          *)

\* C35: a failure to write the archive record in results is not fatal: the
\* final report is returned to the caller as it is after a successful write,
\* and the session (score, responses, current_question) is unchanged by the
\* failed write.
C35_WriteFailureNotFatal ==
    LET written == results(session, predictions, FALSE)
        failed == results(session, predictions, TRUE)
        after == save_session(session, failed, FALSE)
    IN  written.status = 200 =>
           /\ failed.status = 200 /\ ~failed.exc
           /\ failed.body = written.body
           /\ failed.body.total_score = session.score
           /\ after.score = session.score
           /\ after.responses = session.responses
           /\ after.current_question = session.current_question
           /\ failed.files = predictions

\* a completed interview whose report is due and whose record is not written
C35_Witness ==
    /\ Active(session)
    /\ Has(session, "score")
    /\ Len(session.responses) = TargetOf(session)
    /\ session.score > 0
    /\ predictions = {}

-----------------------------------------------------------------------------
(* interview_app.py: the admin pages.                                      *)

\* the <interview_id> of an admin URL: that of an archived interview or not
AdminUrlIds == {TokenId, RowId}

\* files of data/predictions whose name starts with interview_id
ArchiveOf(files, interview_id) == {f \in files : f.interview_id = interview_id}

\* interview_app.py admin: the list of the archived interviews
admin(s, files) ==
    IF ~require_admin(s)
    THEN [status |-> 302, location |-> "admin_login", body |-> {}, files |-> files]
    ELSE [status |-> 200, location |-> "none", body |-> files, files |-> files]

\* interview_app.py admin_interview_detail: the archive of one interview
admin_interview_detail(s, files, interview_id) ==
    IF ~require_admin(s)
    THEN [status |-> 302, location |-> "admin_login", body |-> {}, files |-> files]
    ELSE IF ArchiveOf(files, interview_id) = {}
    THEN [status |-> 404, location |-> "none", body |-> {}, files |-> files]
    ELSE [status |-> 200, location |-> "none",
          body |-> ArchiveOf(files, interview_id), files |-> files]

\* interview_app.py admin_delete_interview: os.remove of the interview's file
admin_delete_interview(s, files, interview_id) ==
    IF ~require_admin(s)
    THEN [status |-> 302, location |-> "admin_login", body |-> {}, files |-> files]
    ELSE [status |-> 302, location |-> "admin", body |-> {},
          files |-> files \ ArchiveOf(files, interview_id)]

\* interview_app.py results: the report and its data/predictions file
IaResults ==
    /\ \E write_fails \in BOOLEAN :
         LET r == results(session, predictions, write_fails)
         IN  /\ session' = save_session(session, r, FALSE)
             /\ predictions' = r.files
    /\ UNCHANGED <<base_questions, interviews, physical_analyzer, submits, requests>>

AdminDeleteInterview ==
    /\ \E interview_id \in AdminUrlIds :
         predictions' = admin_delete_interview(session, predictions, interview_id).files
    /\ UNCHANGED <<base_questions, session, interviews, physical_analyzer, submits, requests>>

NextAdmin ==
    \/ AdminLogin
    \/ AdminLogout
    \/ CancelInterview
    \/ IaStartInterviewWithName
    \/ IaStartVideoInterview
    \/ IaInterviewRoom
    \/ IaSubmitAnswer
    \/ IaResults
    \/ AdminDeleteInterview

SpecAdmin == InitInterviewApp /\ [][NextAdmin]_vars

\* what admin_logout and the two start routes leave of a session's admin flag,
\* what the admin pages do without it, and how the flag comes to be set
AdminGuardStep ==
    /\ ~require_admin(session) =>
         /\ admin(session, predictions).status = 302
         /\ \A interview_id \in AdminUrlIds :
              /\ admin_interview_detail(session, predictions, interview_id).status = 302
              /\ admin_delete_interview(session, predictions, interview_id).location
                   = "admin_login"
    /\ (predictions' # predictions /\ predictions' \subseteq predictions)
         => require_admin(session)
    /\ (~Has(session, "admin_logged_in") /\ Has(session', "admin_logged_in"))
         => session' = admin_login(session, TRUE).s
    /\ ~require_admin(admin_login(session, FALSE).s) \/ require_admin(session)
    /\ ~require_admin(save_session(session, admin_logout(session), FALSE))
    /\ ~require_admin(save_session(session, ia_start_interview_with_name(session),
                                   FALSE))
    /\ \A generated \in generate_questions(DEFAULT_QUESTIONS),
          additional \in generate_questions(MIN_QUESTIONS) :
         LET r == ia_start_video_interview(session, generated, additional,
                                           base_questions)
         IN  ~r.hangs => ~require_admin(save_session(session, r, FALSE))

\* C36 as stated: the admin list, detail and delete handlers run only in a
\* session whose admin_logged_in is set, the flag is set only by admin_login
\* with the right password, and after admin_logout, start_interview_with_name,
\* start_video_interview or cancel_interview the session does not pass
\* require_admin until a new login.  Violated: cancel_interview clears the
\* session only when an interview is in progress.
C36_NoAdminAfterCancel ==
    [][/\ AdminGuardStep
       /\ ~require_admin(save_session(session, cancel_interview(session), FALSE))]_vars

\* C36, amended: as above, with cancel_interview ending the admin login only
\* of a session that holds an interview; a cancel_interview without one leaves
\* the session, its admin flag included, as it was.
C36_AdminOnlyAfterLogin ==
    [][/\ AdminGuardStep
       /\ LET after == save_session(session, cancel_interview(session), FALSE)
          IN  IF Active(session) THEN ~require_admin(after)
              ELSE after = session]_vars

\* an admin logged in during an interview whose report is archived
C36_Witness ==
    /\ require_admin(session)
    /\ Active(session)
    /\ ArchiveOf(predictions, TokenId) # {}

-----------------------------------------------------------------------------
(* The range of the scores (SpecRange): answers and samples at both ends   *)
(* of the scale.                                                           *)

\* a frame and a segment scored 0 and scored 10
ZeroFrame == [sent |-> TRUE, ok |-> TRUE, confidence |-> 0, posture_score |-> 0]
FullFrame == [sent |-> TRUE, ok |-> TRUE, confidence |-> 1000, posture_score |-> 1000]
ZeroAudio == [sent |-> TRUE, ok |-> TRUE, voice_score |-> 0]
FullAudio == [sent |-> TRUE, ok |-> TRUE, voice_score |-> 1000]

\* ai_interviewer.analyze_answer(...)[0] at the ends and inside the scale
RangeBaseScores == {0, 550, 1000}

AnalyzePhysicalRange ==
    /\ \E video_frames \in Batches({ZeroFrame, FullFrame}), fails \in BOOLEAN :
         \E tag \in SampleTags(session, ~fails /\ video_frames # <<>>) :
            LET r == analyze_physical(session, physical_analyzer, video_frames,
                                      <<>>, fails, tag)
            IN  /\ session' = save_session(session, r, FALSE)
                /\ physical_analyzer' = r.analyzer
    /\ UNCHANGED <<base_questions, interviews, predictions, submits, requests>>

UpdatePhysicalAnalysisRange ==
    /\ \E frame \in {NoFrame, ZeroFrame, FullFrame},
          audio \in {NoAudio, ZeroAudio, FullAudio} :
         \E tag \in SampleTags(session, frame.ok \/ audio.ok) :
            session' = save_session(session,
                           update_physical_analysis(session, frame, audio, tag), FALSE)
    /\ UNCHANGED <<base_questions, interviews, physical_analyzer, predictions, submits,
                   requests>>

SubmitAnswerRange ==
    /\ \E base \in RangeBaseScores, db_fail \in DbFailures,
          next_q \in generate_next_question :
         LET r == submit_answer(session, interviews, base, db_fail, next_q)
         IN  \E propagate \in Propagation(r) :
                /\ session' = save_session(session, r, propagate)
                /\ interviews' = r.db
                /\ submits' = IF WentThrough(r, propagate) THEN submits + 1
                              ELSE submits
    /\ UNCHANGED <<base_questions, physical_analyzer, predictions, requests>>

NextRange ==
    \/ StartVideoInterview
    \/ AnalyzePhysicalRange
    \/ UpdatePhysicalAnalysisRange
    \/ SubmitAnswerRange

SpecRange == Init /\ [][NextRange]_vars

\* C37: with the scorer's base score and every recorded physical sub-score
\* between 0 and 10, every score stored in a response and every score
\* submit_answer returns lies between 0 and 10, and the running score is at
\* most 10 times the number of responses.
C37_ScoresWithinTen ==
    /\ \A i \in 1..Len(session.responses) :
          /\ session.responses[i].score >= 0
          /\ session.responses[i].score <= 1000
    /\ Has(session, "score") =>
          /\ session.score >= 0
          /\ session.score <= 1000 * Len(session.responses)
    /\ \A base \in RangeBaseScores, next_q \in generate_next_question :
          LET r == submit_answer(session, interviews, base, "none", next_q)
          IN  (r.status = 200 /\ r.body.accepted) =>
                 /\ r.body.score >= 0
                 /\ r.body.score <= 1000
                 /\ r.s.score <= 1000 * Len(r.s.responses)

\* an answer scored 10 merged with a physical score of 10: the stored score
\* and the running score are at their upper bound
C37_Witness ==
    /\ session.responses # <<>>
    /\ session.score = 1000 * Len(session.responses)
    /\ \E i \in 1..Len(session.responses) :
          /\ session.responses[i].base = 1000
          /\ session.responses[i].score = 1000
          /\ \E d \in session.responses[i].physical_analysis :
                d.overall_physical_score = 1000
====
